---- MODULE Spec2Model ----
(* State machine of the pickleball open-play scheduler (src/app.py):      *)
(* the persisted data blob (players, queue, courts, streaks, history),    *)
(* the configuration (max_players, num_courts) and one action per button  *)
(* handler of the Streamlit script.                                       *)
EXTENDS Integers, Sequences, FiniteSets, TLC

\* ------------------------------ bounds ------------------------------
NumNames == 5          \* how many distinct non-empty names can be typed
MaxPlayersLo == 3      \* lower end of the "Max Players" slider (scaled)
MaxPlayersHi == 4      \* upper end of the "Max Players" slider (scaled)
MaxCourts == 2         \* upper end of the "Number of Courts" slider (scaled)
MaxHistory == 2        \* results processed before a session is only reset
MaxRoster == 8         \* "Max Players" in the sessions that never shuffle
MaxResults == 3        \* results processed in the sessions that never shuffle

AllNames == <<"A", "B", "C", "D", "E", "F", "G", "H", "I", "J">>
TeamChoices == {"Team 1", "Team 2"}
PlayerChoices == MaxPlayersLo..MaxPlayersHi
CourtChoices == 1..MaxCourts

VARIABLES players, queue, courts, streaks, history, max_players, num_courts, last

data == <<players, queue, courts, streaks, history>>
config == <<max_players, num_courts>>
vars == <<players, queue, courts, streaks, history, max_players, num_courts, last>>

\* ------------------------------ helpers ------------------------------
Range(s) == {s[k] : k \in DOMAIN s}
Contains(s, x) == \E k \in DOMAIN s : s[k] = x
\* python list slice s[a:] (a is 0-based)
SliceFrom(s, a) == SubSeq(s, a + 1, Len(s))
\* python list slice s[:b]
SliceTo(s, b) == SubSeq(s, 1, IF b < Len(s) THEN b ELSE Len(s))
\* dict.get(k, 0)
StreakGet(s, k) == IF k \in DOMAIN s THEN s[k] ELSE 0
\* dict[k] = v
StreakPut(s, k, v) == [x \in DOMAIN s \cup {k} |-> IF x = k THEN v ELSE s[x]]
EmptyStreaks == [x \in {} |-> 0]
EmptyCourts(n) == [c \in 0..(n - 1) |-> <<>>]
NoOp == [op |-> "none"]

\* random.shuffle: any permutation of the list
Shuffles(s) == {[k \in 1..Len(s) |-> s[f[k]]] : f \in Permutations(1..Len(s))}

\* ------------------------------ Init ------------------------------
\* load_json(CONFIG_FILE, ...) with a saved configuration (any slider values)
\* and load_json(DATA_FILE, default) with no data file: the default data blob
Init ==
    /\ max_players \in PlayerChoices
    /\ num_courts \in CourtChoices
    /\ players = <<>>
    /\ queue = <<>>
    /\ courts = EmptyCourts(num_courts)
    /\ streaks = EmptyStreaks
    /\ history = <<>>
    /\ last = NoOp

\* ------------------------------ Add Player ------------------------------
\* the handler with the capacity test off by one
AddPlayerPastLimit(new_player) ==
    IF Len(players) > max_players
    THEN /\ UNCHANGED <<data, config>>
         /\ last' = [op |-> "add", outcome |-> "limit"]
    ELSE IF new_player # "" /\ ~Contains(players, new_player)
    THEN /\ players' = Append(players, new_player)
         /\ queue' = Append(queue, new_player)
         /\ UNCHANGED <<courts, streaks, history, config>>
         /\ last' = [op |-> "add", outcome |-> "added"]
    ELSE /\ UNCHANGED <<data, config>>
         /\ last' = [op |-> "add", outcome |-> "ignored"]

\* the handler without the test for a name already on the roster
AddPlayerAgain(new_player) ==
    IF Len(players) >= max_players
    THEN /\ UNCHANGED <<data, config>>
         /\ last' = [op |-> "add", outcome |-> "limit"]
    ELSE IF new_player # ""
    THEN /\ players' = Append(players, new_player)
         /\ queue' = Append(queue, new_player)
         /\ UNCHANGED <<courts, streaks, history, config>>
         /\ last' = [op |-> "add", outcome |-> "added"]
    ELSE /\ UNCHANGED <<data, config>>
         /\ last' = [op |-> "add", outcome |-> "ignored"]

AddPlayer(new_player) ==
    IF Len(players) >= max_players
    THEN /\ UNCHANGED <<data, config>>
         /\ last' = [op |-> "add", outcome |-> "limit"]
    ELSE IF new_player # "" /\ ~Contains(players, new_player)
    THEN /\ players' = Append(players, new_player)
         /\ queue' = Append(queue, new_player)
         /\ UNCHANGED <<courts, streaks, history, config>>
         /\ last' = [op |-> "add", outcome |-> "added"]
    ELSE /\ UNCHANGED <<data, config>>
         /\ last' = [op |-> "add", outcome |-> "ignored"]

\* ------------------------------ initialize_queue ------------------------------
initialize_queue ==
    IF players = <<>>
    THEN /\ UNCHANGED <<data, config>>
         /\ last' = [op |-> "shuffle", outcome |-> "warning"]
    ELSE /\ queue' \in Shuffles(players)
         /\ UNCHANGED <<players, courts, streaks, history, config>>
         /\ last' = [op |-> "shuffle", outcome |-> "done"]

\* ------------------------------ assign_all_courts ------------------------------
RECURSIVE SetStreaks(_, _, _)
\* for p in court: streaks[p] = v
SetStreaks(s, ps, v) ==
    IF ps = <<>> THEN s
    ELSE SetStreaks(StreakPut(s, Head(ps), v), Tail(ps), v)

RECURSIVE AssignFromTail(_, _, _, _)
\* the loop taking each group of four from the end of the queue
AssignFromTail(i, q, cs, s) ==
    IF i >= num_courts \/ Len(q) < 4
    THEN [queue |-> q, courts |-> cs, streaks |-> s, filled |-> i]
    ELSE AssignFromTail(i + 1, SubSeq(q, 1, Len(q) - 4),
                        [cs EXCEPT ![i] = SliceFrom(q, Len(q) - 4)],
                        SetStreaks(s, SliceFrom(q, Len(q) - 4), 1))

RECURSIVE AssignFromClearing(_, _, _, _)
\* the loop emptying the court it stops at instead of leaving it alone
AssignFromClearing(i, q, cs, s) ==
    IF i >= num_courts
    THEN [queue |-> q, courts |-> cs, streaks |-> s, filled |-> i]
    ELSE IF Len(q) < 4
    THEN [queue |-> q, courts |-> [cs EXCEPT ![i] = <<>>], streaks |-> s, filled |-> i]
    ELSE AssignFromClearing(i + 1, SliceFrom(q, 4),
                            [cs EXCEPT ![i] = SliceTo(q, 4)],
                            SetStreaks(s, SliceTo(q, 4), 1))

RECURSIVE AssignFrom(_, _, _, _)
\* the loop over range(num_courts) starting at court i; returns the final
\* queue, courts and streaks and the number of courts filled
AssignFrom(i, q, cs, s) ==
    IF i >= num_courts \/ Len(q) < 4
    THEN [queue |-> q, courts |-> cs, streaks |-> s, filled |-> i]
    ELSE AssignFrom(i + 1, SliceFrom(q, 4),
                    [cs EXCEPT ![i] = SliceTo(q, 4)],
                    SetStreaks(s, SliceTo(q, 4), 1))

assign_all_courts ==
    LET r == AssignFrom(0, queue, courts, streaks) IN
    /\ queue' = r.queue
    /\ courts' = r.courts
    /\ streaks' = r.streaks
    /\ UNCHANGED <<players, history, config>>
    /\ last' = [op |-> "assign", filled |-> r.filled]

\* ------------------------------ process_court_result ------------------------------
Winners(court, winning_team) ==
    IF winning_team = "Team 1" THEN SliceTo(court, 2) ELSE SliceFrom(court, 2)
Losers(court, winning_team) ==
    IF winning_team = "Team 1" THEN SliceFrom(court, 2) ELSE SliceTo(court, 2)

RECURSIVE BumpWinners(_, _)
\* for w in winners: streaks[w] = streaks.get(w, 0) + 1
BumpWinners(s, ws) ==
    IF ws = <<>> THEN s
    ELSE BumpWinners(StreakPut(s, Head(ws), StreakGet(s, Head(ws)) + 1), Tail(ws))

\* the streak cap of the stay test
StreakCap == 3

\* the stay test with the comparison off by one
StaysAtCap(s, w) == s[w] <= StreakCap

\* if data["streaks"][w] < 3
Stays(s, w) == s[w] < StreakCap

\* a capped winner put at the head of the queue instead of the tail
RequeueAtHead(q, w) == <<w>> \o q

\* data["queue"].append(w)
Requeue(q, w) == Append(q, w)

RECURSIVE StayLoop(_, _, _, _)
\* for w in winners: stay if streaks[w] < 3, else reset the streak and requeue
StayLoop(ws, s, q, staying) ==
    IF ws = <<>> THEN [streaks |-> s, queue |-> q, staying |-> staying]
    ELSE IF Stays(s, Head(ws))
    THEN StayLoop(Tail(ws), s, q, Append(staying, Head(ws)))
    ELSE StayLoop(Tail(ws), StreakPut(s, Head(ws), 0), Requeue(q, Head(ws)), staying)

\* the reseed step keeping the staying winners together as Team 1
ReseedNoSplit(staying, q) ==
    IF Len(staying) = 2
    THEN IF Len(q) >= 3
         THEN [court |-> <<staying[1], staying[2], q[1], q[2]>>, queue |-> SliceFrom(q, 2)]
         ELSE [court |-> <<staying[1]>> \o staying, queue |-> q]
    ELSE [court |-> <<>>, queue |-> q]

\* the reseed step taking the two fresh players from the end of the queue
ReseedFromTail(staying, q) ==
    IF Len(staying) = 2
    THEN IF Len(q) >= 3
         THEN [court |-> <<staying[1], q[Len(q) - 1], q[Len(q)], staying[2]>>,
               queue |-> SubSeq(q, 1, Len(q) - 2)]
         ELSE [court |-> <<staying[1]>> \o staying, queue |-> q]
    ELSE [court |-> <<>>, queue |-> q]

\* the reseed step: the new court and the queue left after the dequeues
Reseed(staying, q) ==
    IF Len(staying) = 2
    THEN IF Len(q) >= 3
         THEN [court |-> <<staying[1], q[1], q[2], staying[2]>>, queue |-> SliceFrom(q, 2)]
         ELSE [court |-> <<staying[1]>> \o staying, queue |-> q]
    ELSE [court |-> <<>>, queue |-> q]

\* the losers' counters left as they were
ResetLosersSkipped(s, losers) == s

\* for l in losers: streaks[l] = 0
ResetLosers(s, losers) == SetStreaks(s, losers, 0)

\* the record put in front of the log instead of behind it
LogMatchInFront(h, record) == <<record>> \o h

\* data["history"].append(record)
LogMatch(h, record) == Append(h, record)

\* the match record with the two pairs exchanged
MatchRecordSwapped(court_index, winners, losers) ==
    [court |-> court_index + 1, winners |-> losers, losers |-> winners]

\* the match record appended to history
MatchRecord(court_index, winners, losers) ==
    [court |-> court_index + 1, winners |-> winners, losers |-> losers]

\* the handler accepting a court of three
ProcessShortCourt(court_index, winning_team) ==
    LET court == courts[court_index] IN
    IF Len(court) < 3
    THEN /\ UNCHANGED <<data, config>>
         /\ last' = [op |-> "process", court_index |-> court_index,
                     winning_team |-> winning_team, outcome |-> "warning"]
    ELSE LET winners == Winners(court, winning_team)
             losers == Losers(court, winning_team)
             s1 == ResetLosers(BumpWinners(streaks, winners), losers)
             st == StayLoop(winners, s1, queue, <<>>)
             rs == Reseed(st.staying, st.queue)
         IN /\ streaks' = st.streaks
            /\ queue' = rs.queue \o losers
            /\ courts' = [courts EXCEPT ![court_index] = rs.court]
            /\ history' = LogMatch(history, MatchRecord(court_index, winners, losers))
            /\ UNCHANGED <<players, config>>
            /\ last' = [op |-> "process", court_index |-> court_index,
                        winning_team |-> winning_team, outcome |-> "done"]

\* the handler putting the losers at the head of the queue
ProcessLosersFirst(court_index, winning_team) ==
    LET court == courts[court_index] IN
    IF Len(court) < 4
    THEN /\ UNCHANGED <<data, config>>
         /\ last' = [op |-> "process", court_index |-> court_index,
                     winning_team |-> winning_team, outcome |-> "warning"]
    ELSE LET winners == Winners(court, winning_team)
             losers == Losers(court, winning_team)
             s1 == ResetLosers(BumpWinners(streaks, winners), losers)
             st == StayLoop(winners, s1, queue, <<>>)
             rs == Reseed(st.staying, st.queue)
         IN /\ streaks' = st.streaks
            /\ queue' = losers \o rs.queue
            /\ courts' = [courts EXCEPT ![court_index] = rs.court]
            /\ history' = LogMatch(history, MatchRecord(court_index, winners, losers))
            /\ UNCHANGED <<players, config>>
            /\ last' = [op |-> "process", court_index |-> court_index,
                        winning_team |-> winning_team, outcome |-> "done"]

process_court_result(court_index, winning_team) ==
    LET court == courts[court_index] IN
    IF Len(court) < 4
    THEN /\ UNCHANGED <<data, config>>
         /\ last' = [op |-> "process", court_index |-> court_index,
                     winning_team |-> winning_team, outcome |-> "warning"]
    ELSE LET winners == Winners(court, winning_team)
             losers == Losers(court, winning_team)
             s1 == ResetLosers(BumpWinners(streaks, winners), losers)
             st == StayLoop(winners, s1, queue, <<>>)
             rs == Reseed(st.staying, st.queue)
         IN /\ streaks' = st.streaks
            /\ queue' = rs.queue \o losers
            /\ courts' = [courts EXCEPT ![court_index] = rs.court]
            /\ history' = LogMatch(history, MatchRecord(court_index, winners, losers))
            /\ UNCHANGED <<players, config>>
            /\ last' = [op |-> "process", court_index |-> court_index,
                        winning_team |-> winning_team, outcome |-> "done"]

\* ------------------------------ reset_all_data ------------------------------
reset_all_data ==
    /\ players' = <<>>
    /\ queue' = <<>>
    /\ courts' = EmptyCourts(num_courts)
    /\ streaks' = EmptyStreaks
    /\ history' = <<>>
    /\ UNCHANGED config
    /\ last' = [op |-> "reset"]

\* ------------------------------ Save Config ------------------------------
SaveConfig(mp, nc) ==
    /\ max_players' = mp
    /\ num_courts' = nc
    /\ courts' = EmptyCourts(nc)
    /\ UNCHANGED <<players, queue, streaks, history>>
    /\ last' = [op |-> "config"]

\* ------------------------------ specification ------------------------------
\* what st.text_input can return: the empty string, a name already on the
\* roster, or a new name.  Names are only ever compared for equality, so the
\* k-th new name of a session is taken to be AllNames[k].
NameInputs ==
    {""} \cup {AllNames[k] : k \in 1..(IF Len(players) < NumNames THEN Len(players) + 1 ELSE NumNames)}
\* a session is explored until MaxHistory results are logged; after that
\* only "Reset everything" is explored
Open == Len(history) < MaxHistory
AddPlayerStep == \E n \in NameInputs : AddPlayer(n)
ProcessStep ==
    /\ Open
    /\ \E c \in 0..(num_courts - 1), t \in TeamChoices : process_court_result(c, t)
SaveConfigStep == \E mp \in PlayerChoices, nc \in CourtChoices : SaveConfig(mp, nc)

Next ==
    \/ Open /\ AddPlayerStep
    \/ Open /\ initialize_queue
    \/ Open /\ assign_all_courts
    \/ ProcessStep
    \/ reset_all_data
    \/ Open /\ SaveConfigStep

Spec == Init /\ [][Next]_vars

\* The sessions in which "Initialize Queue" is never pressed: the queue is
\* then ordered by arrival alone, which leaves room for a roster that fills
\* two courts and for a third result.
PlayerChoicesNoShuffle == (MaxRoster - 1)..MaxRoster
NameInputsNoShuffle ==
    {""} \cup {AllNames[k] : k \in 1..(IF Len(players) < MaxRoster THEN Len(players) + 1 ELSE MaxRoster)}
OpenNoShuffle == Len(history) < MaxResults
InitNoShuffle ==
    /\ max_players \in PlayerChoicesNoShuffle
    /\ num_courts \in CourtChoices
    /\ players = <<>>
    /\ queue = <<>>
    /\ courts = EmptyCourts(num_courts)
    /\ streaks = EmptyStreaks
    /\ history = <<>>
    /\ last = NoOp
AddPlayerStepNoShuffle == \E n \in NameInputsNoShuffle : AddPlayer(n)
ProcessStepNoShuffle ==
    /\ OpenNoShuffle
    /\ \E c \in 0..(num_courts - 1), t \in TeamChoices : process_court_result(c, t)
SaveConfigStepNoShuffle ==
    \E mp \in PlayerChoicesNoShuffle, nc \in CourtChoices : SaveConfig(mp, nc)
NextNoShuffle ==
    \/ OpenNoShuffle /\ AddPlayerStepNoShuffle
    \/ OpenNoShuffle /\ assign_all_courts
    \/ ProcessStepNoShuffle
    \/ reset_all_data
    \/ OpenNoShuffle /\ SaveConfigStepNoShuffle

SpecNoShuffle == InitNoShuffle /\ [][NextNoShuffle]_vars

\* ------------------------------ properties ------------------------------
\* the last handler run was a result that was processed, not rejected
ProcessDone == last.op = "process" /\ last.outcome = "done"
\* the record that result appended
LastRecord == history[Len(history)]
NoDuplicates(s) == \A j, k \in DOMAIN s : s[j] = s[k] => j = k
OnCourt(c) == Range(courts[c])
CourtIndices == DOMAIN courts

\* C1: no player occupies more than one position: the queue holds no
\* duplicates, no player appears twice on one court or on two courts, and no
\* player is both in the queue and on a court.
C1_OnePositionPerPlayer ==
    /\ NoDuplicates(queue)
    /\ \A c \in CourtIndices : NoDuplicates(courts[c])
    /\ \A c, d \in CourtIndices : c # d => OnCourt(c) \cap OnCourt(d) = {}
    /\ \A c \in CourtIndices : OnCourt(c) \cap Range(queue) = {}

\* C2: after every completed operation every court holds either 0 or exactly
\* 4 players.
C2_CourtEmptyOrFull == \A c \in CourtIndices : Len(courts[c]) \in {0, 4}

\* C3: between operations every streak counter is in 0..2: a value of 3 or
\* more never persists.
C3_StreakBelowCap == \A p \in DOMAIN streaks : streaks[p] \in 0..2
\* a result was processed in which a winner hit the cap and had the counter reset
C3_Witness ==
    /\ ProcessDone
    /\ \E k \in 1..2 :
          /\ LastRecord.winners[k] \notin Range(LastRecord.losers)
          /\ streaks[LastRecord.winners[k]] = 0
          /\ LastRecord.winners[k] \in Range(queue)

\* C4: a player moved from the queue onto a court, by assign_all_courts or as
\* one of the two players dequeued by the reseed of process_court_result, has
\* streak counter 1 right after the operation.
HasStreak(p, v) == p \in DOMAIN streaks /\ streaks[p] = v
C4_FreshPlayerStreakOne ==
    /\ last.op = "assign" =>
          \A c \in CourtIndices : c < last.filled =>
              \A p \in OnCourt(c) : HasStreak(p, 1)
    /\ (ProcessDone /\ Len(courts[last.court_index]) = 4) =>
          /\ HasStreak(courts[last.court_index][2], 1)
          /\ HasStreak(courts[last.court_index][3], 1)

\* C5: after initialize_queue on a non-empty roster the queue is a
\* permutation of the roster and no roster player retains a court assignment.
IsPermutation(s, t) ==
    /\ Len(s) = Len(t)
    /\ NoDuplicates(s)
    /\ Range(s) = Range(t)
C5_ShuffleResetsPlayOrder ==
    (last.op = "shuffle" /\ last.outcome = "done") =>
        /\ IsPermutation(queue, players)
        /\ \A c \in CourtIndices : OnCourt(c) \cap Range(players) = {}

\* the streak counters at the stay test of a result for team t on court c
UpdatedStreaks(c, t) ==
    ResetLosers(BumpWinners(streaks, Winners(courts[c], t)), Losers(courts[c], t))
\* the winners of that result whose updated streak reached the cap
Capped(c, t) ==
    {w \in Range(Winners(courts[c], t)) : UpdatedStreaks(c, t)[w] >= StreakCap}

\* C6 (as stated): a winner whose updated streak reaches 3 is absent from the
\* court afterwards, has streak 0 and sits at the tail of the queue: behind
\* every player queued before the operation, with nobody but another capped
\* winner behind it.
C6_CappedWinnerAtTail ==
    [][ProcessDone' =>
        LET c == last'.court_index
            t == last'.winning_team
        IN \A w \in Capped(c, t) :
              /\ w \notin Range(courts'[c])
              /\ streaks'[w] = 0
              /\ \E j \in (Len(queue) + 1)..Len(queue') :
                    /\ queue'[j] = w
                    /\ \A k \in (j + 1)..Len(queue') : queue'[k] \in Capped(c, t)]_vars

\* C6 (amended): a winner whose updated streak reaches 3 is absent from the
\* court afterwards, has streak 0 and is appended to the queue behind every
\* player queued before the operation; the queue ends with the two losers, and
\* only players of the processed court are behind the formerly queued ones.
C6_CappedWinnerRequeued ==
    [][ProcessDone' =>
        LET c == last'.court_index
            t == last'.winning_team
        IN \A w \in Capped(c, t) :
              /\ w \notin Range(courts'[c])
              /\ streaks'[w] = 0
              /\ SubSeq(queue', 1, Len(queue)) = queue
              /\ \E j \in (Len(queue) + 1)..(Len(queue') - 2) : queue'[j] = w
              /\ \A j \in (Len(queue) + 1)..Len(queue') : queue'[j] \in Range(courts[c])
              /\ SubSeq(queue', Len(queue') - 1, Len(queue')) = Losers(courts[c], t)]_vars
\* a result was processed whose capped winner sits right before the two losers
C6_Witness ==
    /\ ProcessDone
    /\ courts[last.court_index] = <<>>
    /\ Len(queue) >= 4
    /\ queue[Len(queue) - 2] \in Range(LastRecord.winners)
    /\ queue[Len(queue) - 2] \notin Range(LastRecord.losers)
    /\ streaks[queue[Len(queue) - 2]] = 0
    /\ SubSeq(queue, Len(queue) - 1, Len(queue)) = LastRecord.losers
    /\ queue[1] \notin Range(LastRecord.winners) \cup Range(LastRecord.losers)

\* C7: when both winners stay and the queue holds at least 3 players, the new
\* court is [staying[0], q1, q2, staying[1]] with q1, q2 the first two players
\* of the queue before the operation, and those two leave the queue head.
C7_ReseedSplitsWinners ==
    [][ProcessDone' =>
        LET c == last'.court_index
            t == last'.winning_team
            ws == Winners(courts[c], t)
        IN (Capped(c, t) = {} /\ Len(queue) >= 3) =>
              /\ courts'[c] = <<ws[1], queue[1], queue[2], ws[2]>>
              /\ queue' = SubSeq(queue, 3, Len(queue)) \o Losers(courts[c], t)]_vars
\* a result was processed after which the court holds the two winners around
\* two other players
C7_Witness ==
    /\ ProcessDone
    /\ Len(courts[last.court_index]) = 4
    /\ courts[last.court_index][1] = LastRecord.winners[1]
    /\ courts[last.court_index][4] = LastRecord.winners[2]
    /\ courts[last.court_index][2] \notin Range(LastRecord.winners)
    /\ courts[last.court_index][3] \notin Range(LastRecord.winners)

\* the pair of the selected team, and the other pair, in court order
SelectedPair(court, t) ==
    IF t = "Team 1" THEN <<court[1], court[2]>> ELSE <<court[3], court[4]>>
OtherPair(court, t) ==
    IF t = "Team 1" THEN <<court[3], court[4]>> ELSE <<court[1], court[2]>>

\* C8 (as stated): every successful process_court_result(court_index, team)
\* appends a record whose court field equals court_index, whose winners are
\* the selected team's pair and whose losers are the other pair.
C8_RecordHoldsCourtIndex ==
    [][ProcessDone' =>
        LET c == last'.court_index
            r == history'[Len(history')]
        IN /\ r.court = c
           /\ r.winners = SelectedPair(courts[c], last'.winning_team)
           /\ r.losers = OtherPair(courts[c], last'.winning_team)]_vars

\* C8 (amended): the record's court field is the 1-based court number
\* court_index + 1; winners and losers are as stated.
C8_RecordHoldsCourtNumber ==
    [][ProcessDone' =>
        LET c == last'.court_index
            r == history'[Len(history')]
        IN /\ r.court = c + 1
           /\ r.winners = SelectedPair(courts[c], last'.winning_team)
           /\ r.losers = OtherPair(courts[c], last'.winning_team)]_vars
\* a result for Team 2 on court 0 was logged
C8_Witness ==
    /\ ProcessDone
    /\ last.court_index = 0
    /\ last.winning_team = "Team 2"
    /\ LastRecord.court = 1
    /\ LastRecord.winners # LastRecord.losers

\* C9: each successful process_court_result lengthens history by exactly 1 and
\* leaves the earlier entries unchanged; no handler other than the full reset
\* removes or changes an entry.
C9_HistoryAppendOnly ==
    [][/\ ProcessDone' =>
            /\ Len(history') = Len(history) + 1
            /\ SubSeq(history', 1, Len(history)) = history
       /\ (~ProcessDone' /\ last'.op # "reset") => history' = history]_vars
\* a second, different result was logged behind the first
C9_Witness ==
    /\ ProcessDone
    /\ Len(history) = 2
    /\ history[1] # history[2]

\* C10: right after a processed result each of the two losers has streak 0.
C10_LosersStreakZero ==
    ProcessDone => \A l \in Range(LastRecord.losers) : HasStreak(l, 0)
\* a result was processed whose losers are at 0 while a winner is at 2
C10_Witness ==
    /\ ProcessDone
    /\ \A l \in Range(LastRecord.losers) : HasStreak(l, 0)
    /\ \E w \in Range(LastRecord.winners) : HasStreak(w, 2)

\* the number of courts assign_all_courts can fill from the present queue
Fillable == IF num_courts < Len(queue) \div 4 THEN num_courts ELSE Len(queue) \div 4
AllCourtsEmpty == \A c \in CourtIndices : courts[c] = <<>>
\* the position of player p in a sequence that holds p once
Pos(s, p) == CHOOSE k \in DOMAIN s : s[k] = p

\* C11: with k = min(number of courts, floor(queue length / 4)) and the courts
\* empty, assign_all_courts removes exactly the first 4*k players from the
\* queue head, keeps the rest in order, puts the j-th group of four on court
\* j-1 in queue order and gives each of those players streak 1.
C11_FillTakesQueueHead ==
    [][(last'.op = "assign" /\ AllCourtsEmpty) =>
        /\ queue' = SubSeq(queue, 4 * Fillable + 1, Len(queue))
        /\ \A j \in 1..Fillable :
              /\ courts'[j - 1] = SubSeq(queue, 4 * (j - 1) + 1, 4 * j)
              /\ \A p \in Range(courts'[j - 1]) :
                    p \in DOMAIN streaks' /\ streaks'[p] = 1]_vars
\* two courts were filled at once from a queue of eight
C11_Witness ==
    /\ last.op = "assign"
    /\ last.filled = 2
    /\ courts[0] = <<"A", "B", "C", "D">>
    /\ courts[1] = <<"E", "F", "G", "H">>
    /\ \A p \in OnCourt(0) \cup OnCourt(1) : HasStreak(p, 1)

\* C18: assign_all_courts fills courts in ascending index order and stops at
\* the first index at which the queue holds fewer than 4 players: that court
\* and every higher one keep their prior content and the rest of the queue is
\* left as it was.
C18_FillStopsAtShortQueue ==
    [][last'.op = "assign" =>
        /\ \A c \in CourtIndices : c < Fillable =>
              courts'[c] = SubSeq(queue, 4 * c + 1, 4 * c + 4)
        /\ \A c \in CourtIndices : c >= Fillable => courts'[c] = courts[c]
        /\ queue' = SubSeq(queue, 4 * Fillable + 1, Len(queue))]_vars
\* court 0 was filled and the loop stopped at court 1, which kept its players
C18_Witness ==
    /\ last.op = "assign"
    /\ last.filled = 1
    /\ num_courts >= 2
    /\ courts[1] # <<>>
    /\ Len(queue) < 4

C12_AddRejectedAtCapacity ==
    [][last'.op = "add" =>
        /\ Len(players) >= max_players => (UNCHANGED data /\ last'.outcome = "limit")
        /\ Len(players') > Len(players) => Len(players) < max_players]_vars
\* a name was typed with the roster at its limit and was rejected
C12_Witness ==
    /\ last.op = "add"
    /\ last.outcome = "limit"
    /\ Len(players) = max_players
    /\ Len(queue) = Len(players)

\* C13: process_court_result on a court that does not hold exactly 4 players
\* is rejected with no mutation of queue, courts, streaks or history; an
\* empty court never has a result processed.
C13_ShortCourtRejected ==
    [][last'.op = "process" =>
        /\ Len(courts[last'.court_index]) # 4 =>
              (UNCHANGED data /\ last'.outcome = "warning")
        /\ ProcessDone' => courts[last'.court_index] # <<>>]_vars
\* a result was submitted for a court of three and rejected
C13_Witness ==
    /\ last.op = "process"
    /\ last.outcome = "warning"
    /\ Len(courts[last.court_index]) = 3
    /\ history # <<>>

\* C14: Add Player with a name that is empty or already on the roster leaves
\* roster and queue unchanged, and the roster never holds a name twice.
C14_DuplicateNameIgnored ==
    [][/\ \A n \in NameInputs :
             ((n = "" \/ Contains(players, n)) /\ AddPlayer(n)) =>
                 (players' = players /\ queue' = queue)
       /\ NoDuplicates(players')]_vars
\* a name was typed below the limit and ignored
C14_Witness ==
    /\ last.op = "add"
    /\ last.outcome = "ignored"
    /\ players # <<>>
    /\ Len(players) < max_players
    /\ NoDuplicates(players)

\* C15: after every successful process_court_result the last two entries of
\* the queue are the two losers in court order.
C15_LosersAtQueueTail ==
    [][ProcessDone' =>
        /\ Len(queue') >= 2
        /\ SubSeq(queue', Len(queue') - 1, Len(queue')) =
              OtherPair(courts[last'.court_index], last'.winning_team)]_vars
\* a result with a reseed from a queue of four: the losers end the queue
C15_Witness ==
    /\ ProcessDone
    /\ Len(courts[last.court_index]) = 4
    /\ Len(queue) = 4
    /\ SubSeq(queue, Len(queue) - 1, Len(queue)) = LastRecord.losers

\* C16: when both winners stay and the queue holds fewer than 3 players at
\* the reseed step, the new court is exactly the two staying winners
\* [staying[0], staying[1]].
C16_ShortQueueKeepsWinnerPair ==
    [][ProcessDone' =>
        LET c == last'.court_index
            t == last'.winning_team
        IN (Capped(c, t) = {} /\ Len(queue) < 3) =>
              courts'[c] = SelectedPair(courts[c], t)]_vars

\* C17: process_court_result never loses a player: each of the four occupants
\* of the processed court is afterwards on that court or in the queue, and
\* when exactly one winner stays the court is empty with all four queued.
C17_NoPlayerLost ==
    [][ProcessDone' =>
        \A p \in Range(courts[last'.court_index]) :
            p \in Range(courts'[last'.court_index]) \/ p \in Range(queue')]_vars

\* C20: winners stay for at most 2 games: a player who wins two results in a
\* row on one court is off that court after the second, so nobody wins three
\* consecutive results on a court while staying on it.  Stated for two
\* results submitted one right after the other on the same court, where the
\* player cannot have left the court in between.
C20_TwoWinsThenOff ==
    [][(ProcessDone /\ ProcessDone' /\ last'.court_index = last.court_index) =>
        \A p \in Range(LastRecord.winners)
                   \cap Range(SelectedPair(courts[last'.court_index], last'.winning_team)) :
            p \notin Range(courts'[last'.court_index])]_vars
====
